---- MODULE Spec2Model ----
(***************************************************************************)
(* Worksheet REST layer of codalab-cli (codalab/rest/worksheets.py).       *)
(*                                                                         *)
(* Every request handler is a small process: one step per call it makes    *)
(* to the worksheet store (local.model), because the store calls are the   *)
(* only points where concurrent requests interleave.  The checks a handler *)
(* runs on values it already holds (the frozen test on a fetched           *)
(* worksheet, the delete preconditions) belong to the step of the store    *)
(* call that precedes them.                                                *)
(*                                                                         *)
(* The store itself (codalab/model), the permission oracle                 *)
(* (codalab/objects/permission.py) and the name lookup                     *)
(* (codalab/lib/canonicalize.py) are not part of the sources at hand; they *)
(* are modelled from sections 4.1, 4.2 and 4.4 of the specification.       *)
(***************************************************************************)
EXTENDS Integers, Sequences, FiniteSets, TLC

\* ------------------------------------------------------------------ bounds

\* Concurrent requests of any kind (each request slot serves one request).
NumReqs == 2
\* Concurrent bulk item requests, when no other kind of request runs.
NumItemReqs == 3
\* Longest item list one request submits (one bulk append or one replace).
MaxBatch == 2
\* Concurrent fetches of a worksheet, and the longest item list fetched.
NumFetchReqs == 1
MaxFetchItems == 2

AnyReqs == 1..NumReqs
ItemReqs == 1..NumItemReqs
FetchReqs == 1..NumFetchReqs
Reqs == AnyReqs \cup ItemReqs \cup FetchReqs

\* ------------------------------------------------------------------ users

AuthUsers == {"u1", "u2"}
\* request.user of an unauthenticated call: an object (its user_id is read at
\* line 239, its is_authenticated at line 370), never None.
PUBLIC_USER == "anon"
Users == AuthUsers \cup {PUBLIC_USER}

is_authenticated(u) == u \in AuthUsers

PublicGroup == "public"
Groups == {PublicGroup, "g"}
\* Group membership is owned by the user directory and never changes here.
MemberOf(u) == IF u = "u2" THEN {PublicGroup, "g"} ELSE {PublicGroup}

Levels == {"none", "read", "all"}
LevelRank(l) == CASE l = "all" -> 2 [] l = "read" -> 1 [] OTHER -> 0

\* ------------------------------------------------------------------ names

home_worksheet(u) == CASE u = "u1" -> "home-u1" [] u = "u2" -> "home-u2"
                       [] OTHER -> "home-public"
HomeNames == {"home-u1", "home-u2", "home-public"}
is_home_worksheet(name) == name \in HomeNames
is_dashboard(name) == name = "dashboard"
is_public_home(name) == name = "home"
\* The spec strings a caller resolves: '' and HOME_WORKSHEET both mean "my home".
HOME_WORKSHEET == "/"
Names == {"a", "b", "home-u1", "dashboard"}

\* ------------------------------------------------------------------ state

InitWs == {1, 2}
WsIds == 1..(Cardinality(InitWs) + NumReqs)

VARIABLES
    ws,          \* the store: worksheet id -> row (items, token, metadata, ACL)
    nextItemId,  \* the store's item id sequence
    nextWs,      \* the next fresh worksheet id
    req          \* request slot -> the request's handler frame

vars == <<ws, nextItemId, nextWs, req>>

NoPerm == [g \in Groups |-> "none"]
NoWs == [exists |-> FALSE, name |-> "", owner |-> "none", title |-> "", tags |-> "",
         frozen |-> FALSE, items |-> <<>>, last_item_id |-> 0, perm |-> NoPerm]

\* An item is identified by the request that submitted it and its place in
\* that request's list; <<0, k>> are the items present at the start.
Item(r, k) == <<r, k>>
Proposal(r, n) == IF n = 0 THEN <<>> ELSE [k \in 1..n |-> Item(r, k)]

IdleReq == [kind |-> "idle", user |-> "none", uuid |-> 0, pc |-> "idle",
            res |-> "", err_ws |-> 0, level |-> "unk",
            snap_owner |-> "none", snap_frozen |-> FALSE, snap_len |-> 0,
            view |-> <<>>, view_id |-> 0, tok_id |-> 0, tok_len |-> 0,
            replace |-> FALSE, new_items |-> <<>>, malformed |-> FALSE, added |-> 0,
            key |-> "", value |-> "", name |-> "",
            group |-> "", permission |-> "", force |-> FALSE,
            attempts |-> 0, wrote |-> FALSE, ret |-> 0,
            inc_bundles |-> {}, inc_worksheets |-> {}]

\* Two worksheets at the start: 1 is empty, owned by u1, readable by everyone
\* and fully open to group g; 2 holds one item, is owned by u2 and private.
InitItems(w) == IF w = 2 THEN <<Item(0, 1)>> ELSE <<>>

InitStore ==
    [w \in WsIds |->
       CASE w = 1 -> [NoWs EXCEPT !.exists = TRUE, !.name = "a", !.owner = "u1",
                                  !.perm = [g \in Groups |-> IF g = PublicGroup
                                                             THEN "read" ELSE "all"]]
         [] w = 2 -> [NoWs EXCEPT !.exists = TRUE, !.name = "b", !.owner = "u2",
                                  !.items = InitItems(w), !.last_item_id = 1]
         [] OTHER -> NoWs]

Init ==
    /\ ws = InitStore
    /\ nextItemId = 2
    /\ nextWs = Cardinality(InitWs) + 1
    /\ req = [r \in Reqs |-> IdleReq]

\* Worksheet ids a request can name: every id handed out so far.
Targets == {w \in WsIds : w < nextWs}

\* Request slots are taken in order: the slots are interchangeable.
Free(r) == req[r].pc = "idle" /\ \A q \in Reqs : q < r => req[q].pc # "idle"

Finish(r, result) == [req EXCEPT ![r].pc = "done", ![r].res = result]
FinishAt(r, result, w) ==
    [req EXCEPT ![r].pc = "done", ![r].res = result, ![r].err_ws = w]

\* ------------------------------------------------- permission oracle (4.1)

\* Owner always gets All; otherwise the maximum level over the ACL entries of
\* the groups the user belongs to, the public group applying to everyone.
\* The owner is the one on the worksheet object the handler holds, the ACL is
\* the store's current one.
MaxLevel(S) == CHOOSE l \in S : \A m \in S : LevelRank(m) <= LevelRank(l)
permissionLevel(u, owner, w) ==
    IF is_authenticated(u) /\ u = owner THEN "all"
    ELSE MaxLevel({ws[w].perm[g] : g \in MemberOf(u)})

\* ------------------------------------------------- worksheet store (4.2)

\* get(id): NotFound unless the worksheet exists.
StoreHas(w) == w \in WsIds /\ ws[w].exists

\* The name lookup of canonicalize.get_worksheet_uuid: the worksheets that
\* carry the name (NotFound when there is none).
WorksheetsNamed(name) == {w \in WsIds : ws[w].exists /\ ws[w].name = name}

\* replaceItems(id, expectedLastItemId, expectedLength, newItems): the stored
\* token must equal the expected one.
TokenMatches(w, exp_id, exp_len) ==
    /\ StoreHas(w)
    /\ ws[w].last_item_id = exp_id
    /\ Len(ws[w].items) = exp_len

\* (The last item id taken from the rows written: an empty list writes none.)
StoreReplaceItemsRowIds(w, new_items) ==
    /\ ws' = [ws EXCEPT ![w].items = new_items,
                        ![w].last_item_id = IF new_items = <<>> THEN @ ELSE nextItemId]
    /\ nextItemId' = nextItemId + 1

\* On success the items are replaced wholesale and the token advances.
StoreReplaceItems(w, new_items) ==
    /\ ws' = [ws EXCEPT ![w].items = new_items, ![w].last_item_id = nextItemId]
    /\ nextItemId' = nextItemId + 1

\* appendItem(id, item): atomic, always ok, advances the token.  Appending to
\* a worksheet deleted in the meantime leaves no worksheet behind.
StoreAppendItem(w, item) ==
    /\ ws' = IF StoreHas(w)
             THEN [ws EXCEPT ![w].items = Append(@, item), ![w].last_item_id = nextItemId]
             ELSE ws
    /\ nextItemId' = nextItemId + 1

\* updateMetadata(id, fields): a keyed write of the given fields.  A worksheet
\* is frozen when its frozen field holds a timestamp.
StoreUpdateMetadata(w, key, value) ==
    ws' = IF ~StoreHas(w) THEN ws
          ELSE CASE key = "name" -> [ws EXCEPT ![w].name = value]
                 [] key = "title" -> [ws EXCEPT ![w].title = value]
                 [] key = "tags" -> [ws EXCEPT ![w].tags = value]
                 [] key = "owner_id" -> [ws EXCEPT ![w].owner = value]
                 [] key = "frozen" -> [ws EXCEPT ![w].frozen = (value # "")]
                 [] OTHER -> ws

\* setGroupPermission(groupId, worksheetId, level)
StoreSetPermission(w, g, level) ==
    ws' = IF StoreHas(w) THEN [ws EXCEPT ![w].perm[g] = level] ELSE ws

\* delete(id): the row, its items and its ACL entries go.
StoreDelete(w) == ws' = [ws EXCEPT ![w] = NoWs]

\* create(worksheet): fails if the name is already taken (checked at the store).
StoreNameFree(name) == WorksheetsNamed(name) = {}
StoreCreate(w, name, owner) ==
    ws' = [ws EXCEPT ![w] = [NoWs EXCEPT !.exists = TRUE, !.name = name, !.owner = owner]]

\* ------------------------------------------------- bulk item requests

\* AuthenticatedPlugin turns an unauthenticated call away before the handler.
Rejected(kind, u) ==
    [IdleReq EXCEPT !.kind = kind, !.user = u, !.pc = "done", !.res = "not_authenticated"]

\* POST /worksheet-items behind AuthenticatedPlugin: the items of the batch,
\* grouped by worksheet (here: one target worksheet per request); replace
\* selects update_worksheet_items, otherwise one add_worksheet_item per item.
create_worksheet_items(r) ==
    /\ Free(r)
    /\ \E u \in Users, w \in Targets, rep \in BOOLEAN, n \in 0..MaxBatch :
        /\ rep \/ n > 0
        /\ req' = [req EXCEPT ![r] =
                     IF ~is_authenticated(u) THEN Rejected("items", u)
                     ELSE [IdleReq EXCEPT !.kind = "items", !.user = u, !.uuid = w,
                                          !.replace = rep, !.new_items = Proposal(r, n),
                                          !.pc = "info_get"]]
    /\ UNCHANGED <<ws, nextItemId, nextWs>>

\* POST /worksheets/<uuid>/raw (no AuthenticatedPlugin): the parsed lines
\* replace the items of the worksheet.  One of the parsed items may be one
\* that convert_item_to_db cannot convert.
update_worksheet_raw(r) ==
    /\ Free(r)
    /\ \E u \in Users, w \in Targets, n \in 0..MaxBatch, bad \in BOOLEAN :
        /\ bad => n > 0
        /\ req' = [req EXCEPT ![r] =
                     [IdleReq EXCEPT !.kind = "raw", !.user = u, !.uuid = w, !.replace = TRUE,
                                     !.new_items = Proposal(r, n), !.malformed = bad,
                                     !.pc = "info_get"]]
    /\ UNCHANGED <<ws, nextItemId, nextWs>>

\* get_worksheet_info(uuid, fetch_items=True), first store call: the
\* worksheet with its items, hence the caller's view (the 'items' and
\* 'last_item_id' of worksheet_info) and its version token.
get_worksheet_info(r) ==
    /\ req[r].pc = "info_get"
    /\ LET w == req[r].uuid IN
        req' = IF ~StoreHas(w) THEN Finish(r, "not_found")
               ELSE [req EXCEPT ![r].pc = "info_perm",
                                ![r].snap_owner = ws[w].owner,
                                ![r].view = ws[w].items,
                                ![r].view_id = ws[w].last_item_id,
                                ![r].tok_id = ws[w].last_item_id,
                                ![r].tok_len = Len(ws[w].items)]
    /\ UNCHANGED <<ws, nextItemId, nextWs>>

\* get_worksheet_info, check_worksheet_has_read_permission.  The permission
\* reads that follow it (lines 237-242) only fill the returned info.
get_worksheet_info_permission(r) ==
    /\ req[r].pc = "info_perm"
    /\ LET lvl == permissionLevel(req[r].user, req[r].snap_owner, req[r].uuid) IN
        req' = IF LevelRank(lvl) < LevelRank("read")
               THEN [Finish(r, "permission_denied") EXCEPT ![r].level = lvl]
               ELSE [req EXCEPT ![r].level = lvl,
                                ![r].pc = IF req[r].kind = "fetch" THEN "fetch_bundles"
                                          ELSE IF req[r].replace THEN "upd_get"
                                          ELSE "add_get"]
    /\ UNCHANGED <<ws, nextItemId, nextWs>>

\* ------------------------------------------------- update_worksheet_items

\* (The token taken from the worksheet read at line 290 instead of from
\* worksheet_info.)
update_worksheet_items_get_retoken(r) ==
    /\ req[r].pc = "upd_get"
    /\ LET w == req[r].uuid IN
        req' = IF ~StoreHas(w) THEN Finish(r, "not_found")
               ELSE [req EXCEPT ![r].pc = "upd_check",
                                ![r].snap_owner = ws[w].owner,
                                ![r].snap_frozen = ws[w].frozen,
                                ![r].tok_id = ws[w].last_item_id,
                                ![r].tok_len = Len(ws[w].items)]
    /\ UNCHANGED <<ws, nextItemId, nextWs>>

\* Line 290: the worksheet is read again, without items, for the checks.
update_worksheet_items_get(r) ==
    /\ req[r].pc = "upd_get"
    /\ LET w == req[r].uuid IN
        req' = IF ~StoreHas(w) THEN Finish(r, "not_found")
               ELSE [req EXCEPT ![r].pc = "upd_check",
                                ![r].snap_owner = ws[w].owner,
                                ![r].snap_frozen = ws[w].frozen]
    /\ UNCHANGED <<ws, nextItemId, nextWs>>

\* The level update_worksheet_items requires of the caller (line 291).
UpdateItemsRequires == "all"

\* Lines 291-292: check_worksheet_has_all_permission reads the ACL, then
\* check_worksheet_not_frozen looks at the worksheet read at line 290.
update_worksheet_items_check(r) ==
    /\ req[r].pc = "upd_check"
    /\ LET lvl == permissionLevel(req[r].user, req[r].snap_owner, req[r].uuid) IN
        req' = IF LevelRank(lvl) < LevelRank(UpdateItemsRequires)
               THEN [Finish(r, "permission_denied") EXCEPT ![r].level = lvl]
               ELSE IF req[r].snap_frozen
               THEN [Finish(r, "frozen") EXCEPT ![r].level = lvl]
               ELSE [req EXCEPT ![r].level = lvl, ![r].pc = "upd_write"]
    /\ UNCHANGED <<ws, nextItemId, nextWs>>

\* The token handed to the store: last_item_id and the length of the items of
\* worksheet_info, the caller's view (lines 288-289), not the store's current
\* ones.
ExpectedTokenCurrent(info_id, info_len, cur_id, cur_len) == <<cur_id, cur_len>>
ExpectedToken(info_id, info_len, cur_id, cur_len) == <<info_id, info_len>>

\* What follows the store's refusal (lines 297-299): the error is raised, the
\* handler is over.
OnConflictRetry(r) == [req EXCEPT ![r].pc = "info_get", ![r].attempts = @ + 1]
OnConflict(r) ==
    [FinishAt(r, "updated_concurrently", req[r].uuid) EXCEPT ![r].attempts = @ + 1]

\* Where a handler goes once its update_worksheet_items call returned:
\* populate_worksheet continues with update_worksheet_metadata (line 346).
AfterUpdateItems(r) ==
    IF req[r].kind \in {"items", "raw"}
    THEN [req EXCEPT ![r].pc = "done", ![r].res = "ok",
                     ![r].attempts = @ + 1, ![r].wrote = TRUE]
    ELSE [req EXCEPT ![r].pc = "meta_get", ![r].attempts = @ + 1, ![r].wrote = TRUE]

\* Lines 294-295: the items are converted unless the caller passed
\* convert_items=False, as create_worksheet_items does (line 190);
\* convert_item_to_db raises on an item it cannot convert.
ConvertFails(r) == req[r].kind # "items" /\ req[r].malformed

\* Lines 297-299: the except clause around the conversion and the store call
\* turns the conversion's error into 'updated concurrently' as well.
OnConvertError(r) == FinishAt(r, "updated_concurrently", req[r].uuid)

\* (The write done without the token, on any worksheet that still exists.)
update_worksheet_items_store_unchecked(r) ==
    /\ req[r].pc = "upd_write"
    /\ IF ConvertFails(r)
       THEN /\ req' = OnConvertError(r)
            /\ UNCHANGED <<ws, nextItemId>>
       ELSE IF StoreHas(req[r].uuid)
       THEN /\ StoreReplaceItems(req[r].uuid, req[r].new_items)
            /\ req' = AfterUpdateItems(r)
       ELSE /\ req' = OnConflict(r)
            /\ UNCHANGED <<ws, nextItemId>>
    /\ UNCHANGED nextWs

\* Lines 293-299: the conditional store write, and the store's UsageError
\* turned into 'updated concurrently'.
update_worksheet_items_store(r) ==
    /\ req[r].pc = "upd_write"
    /\ LET w == req[r].uuid
           tok == ExpectedToken(req[r].tok_id, req[r].tok_len,
                                ws[w].last_item_id, Len(ws[w].items))
       IN IF ConvertFails(r)
          THEN /\ req' = OnConvertError(r)
               /\ UNCHANGED <<ws, nextItemId>>
          ELSE IF TokenMatches(w, tok[1], tok[2])
          THEN /\ StoreReplaceItems(w, req[r].new_items)
               /\ req' = AfterUpdateItems(r)
          ELSE /\ req' = OnConflict(r)
               /\ UNCHANGED <<ws, nextItemId>>
    /\ UNCHANGED nextWs

\* ------------------------------------------------- add_worksheet_item

\* Line 416: the worksheet, without items.
add_worksheet_item_get(r) ==
    /\ req[r].pc = "add_get"
    /\ LET w == req[r].uuid IN
        req' = IF ~StoreHas(w) THEN Finish(r, "not_found")
               ELSE [req EXCEPT ![r].pc = "add_check",
                                ![r].snap_owner = ws[w].owner,
                                ![r].snap_frozen = ws[w].frozen]
    /\ UNCHANGED <<ws, nextItemId, nextWs>>

AddItemRequires == "all"

\* Lines 417-418.
add_worksheet_item_check(r) ==
    /\ req[r].pc = "add_check"
    /\ LET lvl == permissionLevel(req[r].user, req[r].snap_owner, req[r].uuid) IN
        req' = IF LevelRank(lvl) < LevelRank(AddItemRequires)
               THEN [Finish(r, "permission_denied") EXCEPT ![r].level = lvl]
               ELSE IF req[r].snap_frozen
               THEN [Finish(r, "frozen") EXCEPT ![r].level = lvl]
               ELSE [req EXCEPT ![r].level = lvl, ![r].pc = "add_write"]
    /\ UNCHANGED <<ws, nextItemId, nextWs>>

\* The handler's loop (lines 192-193): the next item of the batch, or the end.
AfterAddItem(r) ==
    [req EXCEPT ![r].new_items = Tail(@), ![r].added = @ + 1, ![r].wrote = TRUE,
                ![r].pc = IF Len(req[r].new_items) > 1 THEN "add_get" ELSE "done",
                ![r].res = IF Len(req[r].new_items) > 1 THEN "" ELSE "ok"]

\* (The append done as a write of the list as the handler saw it at line 184,
\* extended by the items it added since, plus the new item.)
add_worksheet_item_store_rmw(r) ==
    /\ req[r].pc = "add_write"
    /\ LET w == req[r].uuid
           seen == req[r].tok_len + req[r].added
           kept == IF seen < Len(ws[w].items) THEN seen ELSE Len(ws[w].items) IN
        ws' = IF StoreHas(w)
              THEN [ws EXCEPT ![w].items = Append(SubSeq(@, 1, kept), Head(req[r].new_items)),
                              ![w].last_item_id = nextItemId]
              ELSE ws
    /\ nextItemId' = nextItemId + 1
    /\ req' = AfterAddItem(r)
    /\ UNCHANGED nextWs

\* Line 419: the store's atomic append.
add_worksheet_item_store(r) ==
    /\ req[r].pc = "add_write"
    /\ StoreAppendItem(req[r].uuid, Head(req[r].new_items))
    /\ req' = AfterAddItem(r)
    /\ UNCHANGED nextWs

\* ------------------------------------------------- update_worksheet_metadata

MetaKeys == {"name", "title", "tags", "owner_id", "freeze", "frozen"}
\* The values a request sends with a key; for 'freeze' and 'frozen' a truthy
\* and a falsy one.
MetaValues(key) ==
    CASE key = "name" -> Names
      [] key = "owner_id" -> AuthUsers
      [] key \in {"freeze", "frozen"} -> {"true", ""}
      [] OTHER -> {"t"}
Truthy(v) == v # ""

\* PATCH /worksheets behind AuthenticatedPlugin (here: one worksheet and one
\* key per request).
update_worksheets(r) ==
    /\ Free(r)
    /\ \E u \in Users, w \in Targets, key \in MetaKeys :
        \E v \in MetaValues(key) :
            req' = [req EXCEPT ![r] =
                      IF ~is_authenticated(u) THEN Rejected("meta", u)
                      ELSE [IdleReq EXCEPT !.kind = "meta", !.user = u, !.uuid = w,
                                           !.key = key, !.value = v, !.pc = "meta_get"]]
    /\ UNCHANGED <<ws, nextItemId, nextWs>>

\* Line 307.
update_worksheet_metadata_get(r) ==
    /\ req[r].pc = "meta_get"
    /\ LET w == req[r].uuid IN
        req' = IF ~StoreHas(w) THEN Finish(r, "not_found")
               ELSE [req EXCEPT ![r].pc = "meta_check",
                                ![r].snap_owner = ws[w].owner,
                                ![r].snap_frozen = ws[w].frozen]
    /\ UNCHANGED <<ws, nextItemId, nextWs>>

UpdateMetadataRequires == "all"

\* ensure_unused_worksheet_name, lines 357-358: a home worksheet name may be
\* claimed by its user only.
HomeOfAnotherInverted(name, u) == is_home_worksheet(name) /\ home_worksheet(u) = name
HomeOfAnother(name, u) == is_home_worksheet(name) /\ home_worksheet(u) # name

\* Line 308, then the loop over the keys up to the first store call in it:
\* for 'name' the home-name test of ensure_unused_worksheet_name.
update_worksheet_metadata_check(r) ==
    /\ req[r].pc = "meta_check"
    /\ LET lvl == permissionLevel(req[r].user, req[r].snap_owner, req[r].uuid) IN
        req' = IF LevelRank(lvl) < LevelRank(UpdateMetadataRequires)
               THEN [Finish(r, "permission_denied") EXCEPT ![r].level = lvl]
               ELSE IF req[r].key = "name"
               THEN IF HomeOfAnother(req[r].value, req[r].user)
                    THEN [Finish(r, "home_of_other") EXCEPT ![r].level = lvl]
                    ELSE [req EXCEPT ![r].level = lvl, ![r].pc = "meta_name"]
               ELSE [req EXCEPT ![r].level = lvl, ![r].pc = "meta_write"]
    /\ UNCHANGED <<ws, nextItemId, nextWs>>

\* ensure_unused_worksheet_name, lines 359-363: the name lookup.
update_worksheet_metadata_name(r) ==
    /\ req[r].pc = "meta_name"
    /\ req' = IF WorksheetsNamed(req[r].value) # {}
              THEN Finish(r, "name_taken")
              ELSE [req EXCEPT ![r].pc = "meta_write"]
    /\ UNCHANGED <<ws, nextItemId, nextWs>>

\* The metadata dict built at lines 309-328, as the field it sets ("" when
\* the dict stays empty): 'freeze' always sets frozen, 'frozen' only with a
\* truthy value and a worksheet not frozen when it was read.
MetadataField(key, value, was_frozen) ==
    CASE key \in {"name", "title", "tags", "owner_id"} -> key
      [] key = "freeze" -> "frozen"
      [] key = "frozen" /\ Truthy(value) /\ ~was_frozen -> "frozen"
      [] OTHER -> ""

\* The value the dict holds for that field: the client's value, except for
\* frozen, which is always datetime.now() (lines 325 and 328).
MetadataValueOfClient(key, value, was_frozen) == value
MetadataValue(key, value, was_frozen) ==
    IF MetadataField(key, value, was_frozen) = "frozen" THEN "now" ELSE value

\* Line 329.
update_worksheet_metadata_store(r) ==
    /\ req[r].pc = "meta_write"
    /\ StoreUpdateMetadata(req[r].uuid,
                           MetadataField(req[r].key, req[r].value, req[r].snap_frozen),
                           MetadataValue(req[r].key, req[r].value, req[r].snap_frozen))
    /\ req' = [req EXCEPT ![r].pc = "done", ![r].res = "ok", ![r].wrote = TRUE]
    /\ UNCHANGED <<nextItemId, nextWs>>

\* ------------------------------------------------- set_worksheet_permission

\* POST /worksheet-permissions behind AuthenticatedPlugin: line 208 reads the
\* worksheet.
set_worksheet_permissions(r) ==
    /\ Free(r)
    /\ \E u \in Users, w \in Targets, g \in Groups, p \in Levels :
        req' = [req EXCEPT ![r] =
                  IF ~is_authenticated(u) THEN Rejected("perm", u)
                  ELSE [IdleReq EXCEPT !.kind = "perm", !.user = u, !.uuid = w,
                                       !.group = g, !.permission = p, !.pc = "perm_get"]]
    /\ UNCHANGED <<ws, nextItemId, nextWs>>

set_worksheet_permissions_get(r) ==
    /\ req[r].pc = "perm_get"
    /\ LET w == req[r].uuid IN
        req' = IF ~StoreHas(w) THEN Finish(r, "not_found")
               ELSE [req EXCEPT ![r].pc = "perm_check", ![r].snap_owner = ws[w].owner]
    /\ UNCHANGED <<ws, nextItemId, nextWs>>

SetPermissionRequires == "all"

\* Line 336.
set_worksheet_permission_check(r) ==
    /\ req[r].pc = "perm_check"
    /\ LET lvl == permissionLevel(req[r].user, req[r].snap_owner, req[r].uuid) IN
        req' = IF LevelRank(lvl) < LevelRank(SetPermissionRequires)
               THEN [Finish(r, "permission_denied") EXCEPT ![r].level = lvl]
               ELSE [req EXCEPT ![r].level = lvl, ![r].pc = "perm_write"]
    /\ UNCHANGED <<ws, nextItemId, nextWs>>

\* new_worksheet, lines 387-391: the dashboard and the public home are filled
\* from a template by populate_worksheet, which starts with get_worksheet_info.
Populated(name) == is_dashboard(name) \/ is_public_home(name)

\* Where a handler goes once set_worksheet_permission returned.
AfterSetPermission(r) ==
    IF req[r].kind = "perm" \/ ~Populated(req[r].name)
    THEN [req EXCEPT ![r].pc = "done", ![r].res = "ok", ![r].wrote = TRUE]
    ELSE [req EXCEPT ![r].pc = "info_get", ![r].wrote = TRUE]

\* Line 337.
set_worksheet_permission_store(r) ==
    /\ req[r].pc = "perm_write"
    /\ StoreSetPermission(req[r].uuid, req[r].group, req[r].permission)
    /\ req' = AfterSetPermission(r)
    /\ UNCHANGED <<nextItemId, nextWs>>

\* ------------------------------------------------- delete_worksheet

\* DELETE /worksheets behind AuthenticatedPlugin, with the force flag.
delete_worksheets(r) ==
    /\ Free(r)
    /\ \E u \in Users, w \in Targets, force \in BOOLEAN :
        req' = [req EXCEPT ![r] =
                  IF ~is_authenticated(u) THEN Rejected("delete", u)
                  ELSE [IdleReq EXCEPT !.kind = "delete", !.user = u, !.uuid = w,
                                       !.force = force, !.pc = "del_get"]]
    /\ UNCHANGED <<ws, nextItemId, nextWs>>

\* Line 423: the worksheet with its items.
delete_worksheet_get(r) ==
    /\ req[r].pc = "del_get"
    /\ LET w == req[r].uuid IN
        req' = IF ~StoreHas(w) THEN Finish(r, "not_found")
               ELSE [req EXCEPT ![r].pc = "del_check",
                                ![r].snap_owner = ws[w].owner,
                                ![r].snap_frozen = ws[w].frozen,
                                ![r].snap_len = Len(ws[w].items)]
    /\ UNCHANGED <<ws, nextItemId, nextWs>>

DeleteRequiresRead == "read"
DeleteRequires == "all"

\* Lines 425-431: what stops a delete ("" when nothing does), judged on the
\* worksheet read at line 423.
DeleteRefusalForced(force, frozen, len) ==
    IF frozen THEN "frozen"
    ELSE IF ~force /\ len > 0 THEN "not_empty"
    ELSE ""
DeleteRefusal(force, frozen, len) ==
    IF force THEN ""
    ELSE IF frozen THEN "frozen"
    ELSE IF len > 0 THEN "not_empty"
    ELSE ""

\* Lines 424-431.
delete_worksheet_check(r) ==
    /\ req[r].pc = "del_check"
    /\ LET lvl == permissionLevel(req[r].user, req[r].snap_owner, req[r].uuid)
           refusal == DeleteRefusal(req[r].force, req[r].snap_frozen, req[r].snap_len)
       IN req' = IF LevelRank(lvl) < LevelRank(DeleteRequires)
                 THEN [Finish(r, "permission_denied") EXCEPT ![r].level = lvl]
                 ELSE IF refusal # ""
                 THEN [FinishAt(r, refusal, req[r].uuid) EXCEPT ![r].level = lvl]
                 ELSE [req EXCEPT ![r].level = lvl, ![r].pc = "del_write"]
    /\ UNCHANGED <<ws, nextItemId, nextWs>>

\* Line 432.
delete_worksheet_store(r) ==
    /\ req[r].pc = "del_write"
    /\ StoreDelete(req[r].uuid)
    /\ req' = [req EXCEPT ![r].pc = "done", ![r].res = "ok", ![r].wrote = TRUE]
    /\ UNCHANGED <<nextItemId, nextWs>>

\* ------------------------------------------------- new_worksheet

\* POST /worksheets behind AuthenticatedPlugin (here: one name per request).
create_worksheets(r) ==
    /\ Free(r)
    /\ \E u \in Users, name \in Names :
        req' = [req EXCEPT ![r] =
                  IF ~is_authenticated(u) THEN Rejected("create", u)
                  ELSE [IdleReq EXCEPT !.kind = "create", !.user = u, !.name = name,
                                       !.pc = "new_check"]]
    /\ UNCHANGED <<ws, nextItemId, nextWs>>

\* (new_worksheet without the login test of lines 370-371.)
new_worksheet_check_nologin(r) ==
    /\ req[r].pc = "new_check"
    /\ req' = IF HomeOfAnother(req[r].name, req[r].user) THEN Finish(r, "home_of_other")
              ELSE IF WorksheetsNamed(req[r].name) # {} THEN Finish(r, "name_taken")
              ELSE [req EXCEPT ![r].pc = "new_store"]
    /\ UNCHANGED <<ws, nextItemId, nextWs>>

\* Lines 370-372: the login test, then ensure_unused_worksheet_name: the
\* home-name test and the name lookup.
new_worksheet_check(r) ==
    /\ req[r].pc = "new_check"
    /\ req' = IF ~is_authenticated(req[r].user) THEN Finish(r, "permission_denied")
              ELSE IF HomeOfAnother(req[r].name, req[r].user) THEN Finish(r, "home_of_other")
              ELSE IF WorksheetsNamed(req[r].name) # {} THEN Finish(r, "name_taken")
              ELSE [req EXCEPT ![r].pc = "new_store"]
    /\ UNCHANGED <<ws, nextItemId, nextWs>>

\* Lines 375-386: the store creates the worksheet, owned by the caller, or
\* refuses a name taken in the meantime; the new worksheet object then goes
\* to set_worksheet_permission(public group, READ).  For a populated
\* worksheet the frame also holds what populate_worksheet will submit: the
\* template's items and the title.
new_worksheet_store(r) ==
    /\ req[r].pc = "new_store"
    /\ IF StoreNameFree(req[r].name)
       THEN /\ StoreCreate(nextWs, req[r].name, req[r].user)
            /\ nextWs' = nextWs + 1
            /\ req' = [req EXCEPT ![r].pc = "perm_check", ![r].uuid = nextWs,
                                  ![r].ret = nextWs, ![r].wrote = TRUE,
                                  ![r].snap_owner = req[r].user,
                                  ![r].group = PublicGroup, ![r].permission = "read",
                                  ![r].replace = Populated(req[r].name),
                                  ![r].new_items = IF Populated(req[r].name)
                                                   THEN Proposal(r, 1) ELSE <<>>,
                                  ![r].key = IF Populated(req[r].name) THEN "title" ELSE "",
                                  ![r].value = IF Populated(req[r].name) THEN "t" ELSE ""]
       ELSE /\ req' = Finish(r, "name_taken")
            /\ UNCHANGED <<ws, nextWs>>
    /\ UNCHANGED nextItemId

\* ------------------------------------------------- get_worksheet_uuid_or_create

\* GET /worksheets?specs=... (no AuthenticatedPlugin; here: one spec per
\* request): the home spec, the dashboard, or a plain name.
ResolveSpecs == {"", HOME_WORKSHEET, "dashboard", "a"}
fetch_worksheets(r) ==
    /\ Free(r)
    /\ \E u \in Users, spec \in ResolveSpecs :
        req' = [req EXCEPT ![r] =
                  [IdleReq EXCEPT !.kind = "resolve", !.user = u, !.value = spec,
                                  !.pc = "res_lookup"]]
    /\ UNCHANGED <<ws, nextItemId, nextWs>>

IsHomeSpec(spec) == spec = "" \/ spec = HOME_WORKSHEET

\* The name canonicalize.get_worksheet_uuid looks up for a spec.
SpecName(spec, u) == IF IsHomeSpec(spec) THEN home_worksheet(u) ELSE spec

\* What get_worksheet_uuid_or_create does with NotFound (lines 402-409): the
\* name it goes on to create, or "" when it re-raises.
CreateOnMiss(spec, u) ==
    IF IsHomeSpec(spec) THEN home_worksheet(u)
    ELSE IF is_dashboard(spec) THEN spec
    ELSE ""

\* Lines 400-409: the lookup; a hit is returned, a miss goes to new_worksheet
\* for the home worksheet and the dashboard.
get_worksheet_uuid_or_create(r) ==
    /\ req[r].pc = "res_lookup"
    /\ LET found == WorksheetsNamed(SpecName(req[r].value, req[r].user))
           name == CreateOnMiss(req[r].value, req[r].user)
       IN IF found # {}
          THEN \E w \in found :
                 req' = [req EXCEPT ![r].pc = "done", ![r].res = "ok", ![r].ret = w]
          ELSE req' = IF name = "" THEN Finish(r, "not_found")
                      ELSE [req EXCEPT ![r].pc = "new_check", ![r].name = name]
    /\ UNCHANGED <<ws, nextItemId, nextWs>>

\* ------------------------------------------------- fetch_worksheet

\* A stored item is the tuple (bundle_uuid, subworksheet_uuid, value, type);
\* "" and 0 stand for None.  The value plays no part in what is included.
TYPE_BUNDLE == "bundle"
TYPE_WORKSHEET == "worksheet"
TYPE_MARKUP == "markup"
StoredItem(b, s, t) == [bundle_uuid |-> b, subworksheet_uuid |-> s, type |-> t]

\* The bundles and worksheets an item can point to: the bundle store is
\* external, and worksheet 3 does not exist at the start (a dangling
\* sub-worksheet reference).
BundleIds == {"b1", "b2"}
SubworksheetIds == {2, 3}
FetchItems ==
    {StoredItem(b, 0, TYPE_BUNDLE) : b \in BundleIds}
        \cup {StoredItem("", w, TYPE_WORKSHEET) : w \in SubworksheetIds}
        \cup {StoredItem("", 0, TYPE_MARKUP)}
ItemLists == UNION {[1..n -> FetchItems] : n \in 0..MaxFetchItems}

\* GET /worksheets/<uuid> (no AuthenticatedPlugin): get_worksheet_info with
\* the items (lines 39-43).
fetch_worksheet(r) ==
    /\ Free(r)
    /\ \E u \in Users, w \in Targets :
        req' = [req EXCEPT ![r] =
                  [IdleReq EXCEPT !.kind = "fetch", !.user = u, !.uuid = w, !.pc = "info_get"]]
    /\ UNCHANGED <<ws, nextItemId, nextWs>>

\* Lines 52-53 and 62-64: the ids looked up for the response.
bundle_uuids(items) ==
    {items[i].bundle_uuid :
        i \in {j \in 1..Len(items) : items[j].type = TYPE_BUNDLE /\ items[j].bundle_uuid # ""}}
subworksheet_uuids(items) ==
    {items[i].subworksheet_uuid :
        i \in {j \in 1..Len(items) :
                 items[j].type = TYPE_WORKSHEET /\ items[j].subworksheet_uuid # 0}}

\* batchGetBundleInfo(ids): the mapping id -> info, as the ids it has an info
\* for; a deleted bundle has none.
get_bundle_infos(uuids, existing) == uuids \cap existing
\* batchGet(ids): the worksheets that exist among the ids.
batch_get_worksheets(uuids) == {w \in uuids : StoreHas(w)}

\* Lines 54-55: the values of get_bundle_infos go into the response.  Which
\* bundles exist is the bundle store's business: any subset may.
fetch_worksheet_bundles(r) ==
    /\ req[r].pc = "fetch_bundles"
    /\ \E existing \in SUBSET BundleIds :
        req' = [req EXCEPT ![r].pc = "fetch_subworksheets",
                           ![r].inc_bundles =
                               get_bundle_infos(bundle_uuids(req[r].view), existing)]
    /\ UNCHANGED <<ws, nextItemId, nextWs>>

\* Line 65: the worksheets batch_get_worksheets returns go into the response.
fetch_worksheet_subworksheets(r) ==
    /\ req[r].pc = "fetch_subworksheets"
    /\ req' = [req EXCEPT ![r].pc = "done", ![r].res = "ok",
                          ![r].inc_worksheets =
                              batch_get_worksheets(subworksheet_uuids(req[r].view))]
    /\ UNCHANGED <<ws, nextItemId, nextWs>>

\* ------------------------------------------------- specification

Next ==
    \E r \in AnyReqs :
        \/ create_worksheet_items(r)
        \/ update_worksheet_raw(r)
        \/ get_worksheet_info(r)
        \/ get_worksheet_info_permission(r)
        \/ update_worksheet_items_get(r)
        \/ update_worksheet_items_check(r)
        \/ update_worksheet_items_store(r)
        \/ add_worksheet_item_get(r)
        \/ add_worksheet_item_check(r)
        \/ add_worksheet_item_store(r)
        \/ update_worksheets(r)
        \/ update_worksheet_metadata_get(r)
        \/ update_worksheet_metadata_check(r)
        \/ update_worksheet_metadata_name(r)
        \/ update_worksheet_metadata_store(r)
        \/ set_worksheet_permissions(r)
        \/ set_worksheet_permissions_get(r)
        \/ set_worksheet_permission_check(r)
        \/ set_worksheet_permission_store(r)
        \/ delete_worksheets(r)
        \/ delete_worksheet_get(r)
        \/ delete_worksheet_check(r)
        \/ delete_worksheet_store(r)
        \/ create_worksheets(r)
        \/ new_worksheet_check(r)
        \/ new_worksheet_store(r)
        \/ fetch_worksheets(r)
        \/ get_worksheet_uuid_or_create(r)

Spec == Init /\ [][Next]_vars

\* The bulk item handler alone, for every request slot: concurrent appends
\* and replaces by several callers.
NextItems ==
    \E r \in ItemReqs :
        \/ create_worksheet_items(r)
        \/ get_worksheet_info(r)
        \/ get_worksheet_info_permission(r)
        \/ update_worksheet_items_get(r)
        \/ update_worksheet_items_check(r)
        \/ update_worksheet_items_store(r)
        \/ add_worksheet_item_get(r)
        \/ add_worksheet_item_check(r)
        \/ add_worksheet_item_store(r)

SpecItems == Init /\ [][NextItems]_vars

\* Fetches, nothing else running: worksheet 1 holds any list of stored
\* items, worksheet 2 one line of text.
InitFetch ==
    /\ \E items \in ItemLists :
        ws = [InitStore EXCEPT ![1].items = items,
                               ![1].last_item_id = IF items = <<>> THEN 0 ELSE 2,
                               ![2].items = <<StoredItem("", 0, TYPE_MARKUP)>>]
    /\ nextItemId = 3
    /\ nextWs = Cardinality(InitWs) + 1
    /\ req = [r \in Reqs |-> IdleReq]

NextFetch ==
    \E r \in FetchReqs :
        \/ fetch_worksheet(r)
        \/ get_worksheet_info(r)
        \/ get_worksheet_info_permission(r)
        \/ fetch_worksheet_bundles(r)
        \/ fetch_worksheet_subworksheets(r)

SpecFetch == InitFetch /\ [][NextFetch]_vars

\* ------------------------------------------------- properties

\* The request that takes the step: every step changes its request's frame.
Acts(r) == req'[r] # req[r]

Done(r) == req[r].pc = "done"
IsReplaceCall(r) == req[r].kind \in {"items", "raw"} /\ req[r].replace
IsAppendCall(r) == req[r].kind = "items" /\ ~req[r].replace
\* The request reached the store with its replace.
AtStore(r) == Done(r) /\ req[r].attempts > 0
SameToken(r1, r2) ==
    /\ req[r1].uuid = req[r2].uuid
    /\ req[r1].tok_id = req[r2].tok_id
    /\ req[r1].tok_len = req[r2].tok_len
\* Some item of request r's list is in worksheet w.
Applied(r, w) == \E i \in 1..Len(ws[w].items) : ws[w].items[i][1] = r
Count(t, s) == Cardinality({i \in 1..Len(s) : s[i] = t})

\* C1: of two replace calls that carry the same observed token to the store,
\* never both succeed; exactly one succeeds unless a third request wrote the
\* worksheet in between; and the worksheet holds no item of a failed one.
C1_OneReplaceWins ==
    \A r1, r2 \in Reqs :
        (r1 # r2 /\ IsReplaceCall(r1) /\ IsReplaceCall(r2)
         /\ AtStore(r1) /\ AtStore(r2) /\ SameToken(r1, r2)) =>
            /\ ~(req[r1].res = "ok" /\ req[r2].res = "ok")
            /\ (\A r3 \in Reqs \ {r1, r2} : ~(req[r3].uuid = req[r1].uuid /\ req[r3].wrote))
                => (req[r1].res = "ok") # (req[r2].res = "ok")
            /\ \A r \in {r1, r2} :
                   req[r].res # "ok" =>
                       /\ req[r].res = "updated_concurrently"
                       /\ ~Applied(r, req[r].uuid)

C1_Witness ==
    \E r1, r2 \in Reqs :
        /\ r1 # r2 /\ IsReplaceCall(r1) /\ IsReplaceCall(r2)
        /\ AtStore(r1) /\ AtStore(r2) /\ SameToken(r1, r2)
        /\ req[r1].res = "ok" /\ req[r2].res = "updated_concurrently"
        /\ req[r1].new_items # <<>> /\ req[r2].new_items # <<>>
        /\ Applied(r1, req[r1].uuid)

\* C2: a replace whose token does not match the stored one changes nothing,
\* ends as one 'updated concurrently' error naming the worksheet, and no
\* request ever makes a second store write attempt.
C2_ConflictFailsOnce ==
    [][\A r \in Reqs :
        /\ req'[r].attempts <= 1
        /\ (Acts(r) /\ req[r].pc = "upd_write"
            /\ ~TokenMatches(req[r].uuid, req[r].tok_id, req[r].tok_len)) =>
               /\ ws' = ws
               /\ req'[r].pc = "done"
               /\ req'[r].res = "updated_concurrently"
               /\ req'[r].err_ws = req[r].uuid]_vars

C2_Witness ==
    \E r \in Reqs :
        /\ IsReplaceCall(r) /\ Done(r) /\ req[r].res = "updated_concurrently"
        /\ req[r].attempts = 1 /\ req[r].err_ws = req[r].uuid
        /\ req[r].new_items # <<>> /\ ~Applied(r, req[r].uuid)

\* The items the finished add_worksheet_item calls appended to worksheet w.
OkAppends(w) ==
    {Item(r, k) : r \in {q \in Reqs : IsAppendCall(q) /\ req[q].uuid = w},
                  k \in 1..MaxBatch}
        \cap {t \in Reqs \X (1..MaxBatch) : t[2] <= req[t[1]].added}
ReplaceWrote(w) == \E r \in Reqs : req[r].replace /\ req[r].uuid = w /\ req[r].wrote
HoldsAll(u, w) == permissionLevel(u, ws[w].owner, w) = "all"

\* C3: while only appends write a worksheet, it holds its original items plus
\* every appended item exactly once, and every append call of a caller
\* holding All on a worksheet that is not frozen is accepted.
C3_AppendsAllKept ==
    /\ \A w \in WsIds :
        (StoreHas(w) /\ ~ReplaceWrote(w)) =>
            /\ Len(ws[w].items) = Len(InitItems(w)) + Cardinality(OkAppends(w))
            /\ \A t \in OkAppends(w) : Count(t, ws[w].items) = 1
    /\ \A r \in Reqs :
        (IsAppendCall(r) /\ Done(r) /\ StoreHas(req[r].uuid)
         /\ HoldsAll(req[r].user, req[r].uuid) /\ ~ws[req[r].uuid].frozen) =>
            req[r].res = "ok" /\ req[r].new_items = <<>>

C3_Witness ==
    \E w \in WsIds :
        /\ StoreHas(w) /\ ~ReplaceWrote(w)
        /\ \A r \in ItemReqs : IsAppendCall(r) /\ Done(r) /\ req[r].uuid = w /\ req[r].res = "ok"
        /\ Cardinality({req[r].user : r \in ItemReqs}) > 1
        /\ Cardinality(OkAppends(w)) > NumItemReqs
        /\ \E i \in 1..Len(ws[w].items) :
             i > 1 /\ ws[w].items[i][1] = ws[w].items[1][1] /\ ws[w].items[i - 1][1] # ws[w].items[1][1]

\* C4: no step changes the items of a worksheet that is frozen when the step
\* is taken.
C4_FrozenItemsNeverChange ==
    [][\A w \in WsIds :
        (ws[w].exists /\ ws[w].frozen /\ ws'[w].exists) => ws'[w].items = ws[w].items]_vars

\* The level a step's permission check requires, "" for a step without one.
Requires(pc) ==
    CASE pc = "info_perm" -> "read"
      [] pc \in {"upd_check", "add_check", "meta_check", "perm_check", "del_check"} -> "all"
      [] OTHER -> ""

\* C5: a step of replace items, append item, update metadata, set permission
\* or delete changes the store only for a caller whose level was All at the
\* operation's check, and the check ends the operation with PermissionDenied,
\* the store unchanged, when the caller's level is below All.
C5_MutationNeedsAll ==
    [][\A r \in Reqs :
        Acts(r) =>
            /\ (ws' # ws /\ req[r].pc # "new_store") => req[r].level = "all"
            /\ (Requires(req[r].pc) = "all"
                /\ permissionLevel(req[r].user, req[r].snap_owner, req[r].uuid) # "all") =>
                   /\ req'[r].pc = "done"
                   /\ req'[r].res = "permission_denied"
                   /\ ws' = ws]_vars

C5_Witness ==
    \E r \in Reqs :
        /\ req[r].kind = "delete" /\ Done(r)
        /\ req[r].res = "permission_denied" /\ req[r].level = "read"
        /\ StoreHas(req[r].uuid) /\ ws[req[r].uuid].items # <<>>

\* C6: no two existing worksheets have the same name.
C6_NamesUnique ==
    \A w1, w2 \in WsIds :
        (w1 # w2 /\ StoreHas(w1) /\ StoreHas(w2)) => ws[w1].name # ws[w2].name

IsHomeResolve(r) ==
    req[r].kind = "resolve" /\ IsHomeSpec(req[r].value) /\ is_authenticated(req[r].user)

\* C7: two finished resolutions of the same user's home worksheet both
\* returned the id of the one worksheet that carries the home name.
C7_HomeResolutionsConverge ==
    \A r1, r2 \in Reqs :
        (r1 # r2 /\ IsHomeResolve(r1) /\ IsHomeResolve(r2)
         /\ req[r1].user = req[r2].user /\ Done(r1) /\ Done(r2)) =>
            /\ req[r1].res = "ok" /\ req[r2].res = "ok"
            /\ req[r1].ret = req[r2].ret
            /\ WorksheetsNamed(home_worksheet(req[r1].user)) = {req[r1].ret}

\* C8: a resolve call never ends with the name-collision error.
C8_CollisionNotPropagated ==
    \A r \in Reqs : (req[r].kind = "resolve" /\ Done(r)) => req[r].res # "name_taken"

\* C9: for a caller holding All, a delete without force of a worksheet read
\* with items ends in a precondition error with the store unchanged; a delete
\* with force goes through, frozen or not, and the worksheet is gone.
C9_DeleteForce ==
    [][\A r \in Reqs :
        /\ (Acts(r) /\ req[r].pc = "del_check"
            /\ permissionLevel(req[r].user, req[r].snap_owner, req[r].uuid) = "all") =>
               /\ (~req[r].force /\ req[r].snap_len > 0) =>
                      /\ req'[r].pc = "done"
                      /\ req'[r].res \in {"not_empty", "frozen"}
                      /\ ws' = ws
               /\ req[r].force => req'[r].pc = "del_write"
        /\ (Acts(r) /\ req[r].pc = "del_write") =>
               /\ req'[r].pc = "done" /\ req'[r].res = "ok"
               /\ ~ws'[req[r].uuid].exists]_vars

C9_Witness ==
    \E r1, r2 \in Reqs :
        /\ req[r1].kind = "delete" /\ ~req[r1].force /\ Done(r1)
        /\ req[r1].level = "all" /\ req[r1].snap_len > 0 /\ req[r1].res = "not_empty"
        /\ req[r2].kind = "delete" /\ req[r2].force /\ Done(r2)
        /\ req[r2].uuid = req[r1].uuid /\ req[r2].snap_len > 0 /\ req[r2].res = "ok"
        /\ ~StoreHas(req[r2].uuid)

\* C10: a delete without force removes a worksheet only if the worksheet has
\* no items and is not frozen at the moment it is removed.
C10_UnforcedDeleteOnlyEmpty ==
    [][\A r \in Reqs :
        (Acts(r) /\ req[r].pc = "del_write" /\ ~req[r].force /\ ws[req[r].uuid].exists) =>
            ws[req[r].uuid].items = <<>> /\ ~ws[req[r].uuid].frozen]_vars

\* C11: no step changes the name, title, tags or owner of a worksheet that is
\* frozen when the step is taken, and a write of one of those fields that read
\* the worksheet frozen ends rejected.
C11_FrozenMetadataRejected ==
    [][/\ \A w \in WsIds :
            (ws[w].exists /\ ws[w].frozen /\ ws'[w].exists) =>
                /\ ws'[w].name = ws[w].name
                /\ ws'[w].title = ws[w].title
                /\ ws'[w].tags = ws[w].tags
                /\ ws'[w].owner = ws[w].owner
       /\ \A r \in Reqs :
            (Acts(r) /\ req[r].pc = "meta_check" /\ req[r].snap_frozen
             /\ req[r].key \in {"name", "title", "tags", "owner_id"}) =>
                req'[r].pc = "done" /\ req'[r].res # "ok"]_vars

\* C12: no step of any request (metadata update with any key and value, item
\* write, permission change) leaves a worksheet that was frozen before the
\* step existing and not frozen.
C12_FrozenNeverUnset ==
    [][\A w \in WsIds :
        (ws[w].exists /\ ws[w].frozen /\ ws'[w].exists) => ws'[w].frozen]_vars

C12_Witness ==
    \E r \in Reqs :
        /\ req[r].kind = "meta" /\ req[r].key \in {"freeze", "frozen"} /\ req[r].value = ""
        /\ Done(r) /\ req[r].res = "ok" /\ req[r].snap_frozen
        /\ StoreHas(req[r].uuid) /\ ws[req[r].uuid].frozen

\* C13: the items of one bulk request stand together in the worksheet, with
\* no other request's item between them, and a finished bulk request has
\* applied all the items of its batch or none.
C13_BatchAtomic ==
    \A r \in Reqs :
        req[r].kind = "items" =>
            /\ \A w \in WsIds : \A i, j \in 1..Len(ws[w].items) :
                   (i < j /\ ws[w].items[i][1] = r /\ ws[w].items[j][1] = r) =>
                       \A k \in i..j : ws[w].items[k][1] = r
            /\ (Done(r) /\ ~req[r].replace) => (req[r].added = 0 \/ req[r].new_items = <<>>)

\* C14: update_worksheet_items ends with PermissionDenied for a caller below
\* All, else with the frozen error for a worksheet read frozen, and only then
\* goes to the store; the store write is refused as 'updated concurrently',
\* the worksheet unchanged, whenever the worksheet's items or last item id are
\* no longer those of the view the caller fetched.
C14_ReplaceCarriesViewToken ==
    [][\A r \in Reqs :
        /\ (Acts(r) /\ req[r].pc = "upd_check") =>
             LET lvl == permissionLevel(req[r].user, req[r].snap_owner, req[r].uuid) IN
               /\ lvl # "all" => req'[r].res = "permission_denied"
               /\ (lvl = "all" /\ req[r].snap_frozen) => req'[r].res = "frozen"
               /\ (lvl = "all" /\ ~req[r].snap_frozen) => req'[r].pc = "upd_write"
        /\ (Acts(r) /\ req[r].pc = "upd_write") =>
               /\ req[r].level = "all" /\ ~req[r].snap_frozen
               /\ (ws[req[r].uuid].last_item_id # req[r].view_id
                   \/ ws[req[r].uuid].items # req[r].view) =>
                      /\ ws' = ws
                      /\ req'[r].pc = "done"
                      /\ req'[r].res = "updated_concurrently"]_vars

\* A replace refused because another request's replace, which left the list
\* as long as it was, succeeded after the caller's fetch.
C14_Witness ==
    \E r, q \in Reqs :
        /\ r # q /\ req[r].uuid = req[q].uuid /\ StoreHas(req[r].uuid)
        /\ req[r].replace /\ Done(r) /\ req[r].res = "updated_concurrently"
        /\ req[r].attempts = 1 /\ req[r].level = "all" /\ ~req[r].snap_frozen
        /\ req[q].replace /\ Done(q) /\ req[q].res = "ok"
        /\ req[q].view_id = req[r].view_id
        /\ Len(req[q].new_items) = Len(req[r].view)
        /\ ws[req[r].uuid].items = req[q].new_items

\* C15: a step of an unauthenticated caller's request leaves the set of
\* worksheets as it was; when such a request reaches new_worksheet (from the
\* resolution of the home or dashboard spec) it ends with PermissionDenied,
\* the store unchanged; and every worksheet is owned by an authenticated user.
C15_NoWorksheetForAnonymous ==
    [][/\ \A r \in Reqs :
            (Acts(r) /\ ~is_authenticated(req'[r].user)) =>
                /\ \A w \in WsIds : ws'[w].exists = ws[w].exists
                /\ req[r].pc = "new_check" =>
                       /\ req'[r].pc = "done"
                       /\ req'[r].res = "permission_denied"
                       /\ ws' = ws
       /\ \A w \in WsIds : ws'[w].exists => is_authenticated(ws'[w].owner)]_vars

C15_Witness ==
    \E r1, r2 \in Reqs :
        /\ req[r1].kind = "resolve" /\ ~is_authenticated(req[r1].user)
        /\ IsHomeSpec(req[r1].value) /\ req[r1].name = home_worksheet(req[r1].user)
        /\ Done(r1) /\ req[r1].res = "permission_denied"
        /\ req[r2].kind = "resolve" /\ ~is_authenticated(req[r2].user)
        /\ is_dashboard(req[r2].name)
        /\ Done(r2) /\ req[r2].res = "permission_denied"
        /\ nextWs = Cardinality(InitWs) + 1

\* The name a create or a rename claims, "" for any other request.
ClaimedName(r) ==
    CASE req[r].kind = "create" -> req[r].name
      [] req[r].kind = "meta" /\ req[r].key = "name" -> req[r].value
      [] OTHER -> ""
ClaimsOthersHome(r) ==
    ClaimedName(r) \in HomeNames /\ ClaimedName(r) # home_worksheet(req[r].user)

\* C16: no step of a create or rename that claims another user's home
\* worksheet name changes the store, and when it comes to the name pre-check
\* (in new_worksheet, or in update_worksheet_metadata for a caller holding
\* All) it ends there with the home-name error, whether or not a worksheet
\* of that name exists.
C16_OthersHomeNameRejected ==
    [][\A r \in Reqs :
        (Acts(r) /\ ClaimsOthersHome(r)) =>
            /\ ws' = ws
            /\ req'[r].pc = "done" => req'[r].res # "ok"
            /\ (req[r].pc = "new_check"
                \/ (req[r].pc = "meta_check"
                    /\ permissionLevel(req[r].user, req[r].snap_owner, req[r].uuid) = "all")) =>
                   req'[r].pc = "done" /\ req'[r].res = "home_of_other"]_vars

C16_Witness ==
    \E r1, r2 \in Reqs :
        /\ req[r1].kind = "create" /\ ClaimsOthersHome(r1)
        /\ Done(r1) /\ req[r1].res = "home_of_other"
        /\ req[r2].kind = "meta" /\ ClaimsOthersHome(r2) /\ req[r2].level = "all"
        /\ Done(r2) /\ req[r2].res = "home_of_other"
        /\ WorksheetsNamed(ClaimedName(r1)) = {}
        /\ ws[req[r2].uuid].name # ClaimedName(r2)

\* The ids the items of a list point to.
ReferencedBundles(items) ==
    {items[i].bundle_uuid : i \in {j \in 1..Len(items) : items[j].bundle_uuid # ""}}
ReferencedWorksheets(items) ==
    {items[i].subworksheet_uuid : i \in {j \in 1..Len(items) : items[j].subworksheet_uuid # 0}}

\* C17: the response of a finished fetch holds a bundle entry for exactly
\* the bundle ids, and a worksheet entry for exactly the sub-worksheet ids,
\* that the items of the worksheet point to, whether the targets exist or not.
C17_FetchIncludesReferences ==
    \A r \in Reqs :
        (req[r].kind = "fetch" /\ Done(r) /\ req[r].res = "ok") =>
            /\ req[r].inc_bundles = ReferencedBundles(ws[req[r].uuid].items)
            /\ req[r].inc_worksheets = ReferencedWorksheets(ws[req[r].uuid].items)

Range(s) == {s[i] : i \in 1..Len(s)}
\* The items in worksheet w that an append call added and that are not in
\* the view request r fetched.
AppendedUnseen(r, w) == (OkAppends(w) \cap Range(ws[w].items)) \ Range(req[r].view)

\* C18: the store's append leaves the item in the worksheet under a later
\* last item id, and a replace that reaches the store while the worksheet
\* holds an appended item its view does not have is refused as 'updated
\* concurrently', the worksheet and the appended item left as they are.
C18_AppendedItemNotOverwritten ==
    [][\A r \in Reqs :
        /\ (Acts(r) /\ req[r].pc = "add_write" /\ StoreHas(req[r].uuid)) =>
               /\ ws'[req[r].uuid].last_item_id > ws[req[r].uuid].last_item_id
               /\ ws'[req[r].uuid].items = Append(ws[req[r].uuid].items, Head(req[r].new_items))
        /\ (Acts(r) /\ req[r].pc = "upd_write" /\ AppendedUnseen(r, req[r].uuid) # {}) =>
               /\ ws' = ws
               /\ req'[r].pc = "done"
               /\ req'[r].res = "updated_concurrently"]_vars

C18_Witness ==
    \E r, q \in Reqs :
        /\ IsReplaceCall(r) /\ Done(r) /\ req[r].res = "updated_concurrently"
        /\ req[r].attempts = 1
        /\ IsAppendCall(q) /\ Done(q) /\ req[q].res = "ok" /\ req[q].uuid = req[r].uuid
        /\ req[r].new_items # <<>>
        /\ AppendedUnseen(r, req[r].uuid) = {Item(q, k) : k \in 1..req[q].added}
        /\ ~Applied(r, req[r].uuid)

\* C19: a replace whose items convert_item_to_db cannot convert ends as a
\* validation failure, and a replace ends as 'updated concurrently' only when
\* the store found its token different from the stored one.
C19_ErrorKindsDistinct ==
    [][\A r \in Reqs :
        (Acts(r) /\ req[r].pc = "upd_write") =>
            /\ (req[r].kind # "items" /\ req[r].malformed) =>
                   req'[r].res = "validation_error"
            /\ req'[r].res = "updated_concurrently" =>
                   /\ req'[r].attempts = req[r].attempts + 1
                   /\ ~TokenMatches(req[r].uuid, req[r].tok_id, req[r].tok_len)]_vars

\* The step is a store write of r's item list, or of one item of r, that the
\* store accepted.
ItemWriteDone(r) ==
    /\ Acts(r) /\ StoreHas(req[r].uuid)
    /\ \/ req[r].pc = "add_write"
       \/ req[r].pc = "upd_write" /\ req'[r].attempts > req[r].attempts
          /\ req'[r].res # "updated_concurrently"

\* C20: every accepted item write (a replace, also by a list of the same
\* length or by the empty list, or an append) leaves the worksheet with a
\* greater last item id, and no step lowers the last item id of a worksheet
\* or changes its items without raising it: no token comes back.
C20_TokenStrictlyAdvances ==
    [][/\ \A r \in Reqs :
            ItemWriteDone(r) =>
                ws'[req[r].uuid].last_item_id > ws[req[r].uuid].last_item_id
       /\ \A w \in WsIds :
            (ws[w].exists /\ ws'[w].exists) =>
                /\ ws'[w].last_item_id >= ws[w].last_item_id
                /\ ws'[w].items # ws[w].items =>
                       ws'[w].last_item_id > ws[w].last_item_id]_vars

C20_Witness ==
    \E r, q \in Reqs :
        /\ r # q /\ req[r].uuid = req[q].uuid /\ StoreHas(req[r].uuid)
        /\ req[r].replace /\ Done(r) /\ req[r].res = "ok"
        /\ req[r].view = <<>> /\ req[r].new_items = <<>>
        /\ req[q].replace /\ Done(q) /\ req[q].res = "ok"
        /\ req[q].view = <<>> /\ req[q].new_items = <<>>
        /\ req[r].view_id < req[q].view_id
        /\ req[q].view_id < ws[req[r].uuid].last_item_id
        /\ ws[req[r].uuid].items = <<>>

====
